---- MODULE Spec2Model ----
(***************************************************************************)
(* State-machine model of gns3/link.py: the Link object that mirrors a     *)
(* controller-side link between two ports of two nodes.  Construction,     *)
(* deletion and capture control send asynchronous requests to the          *)
(* controller; each request completes later, in any order, by running the  *)
(* Link's callback with a result or with error=True.                       *)
(***************************************************************************)
EXTENDS Integers, Sequences, FiniteSets, Bags, TLC

VARIABLES
    instance_count,   \* Link._instance_count, the class-wide id counter
    links,            \* the Link objects constructed so far, in construction order
    ports,            \* the Port objects: link id, destination node, destination port
    node_links,       \* per Node, the Links registered with addLink
    requests,         \* bag of the controller requests in flight
    signals,          \* the Qt signals emitted so far, each with what an observer sees
    calls,            \* number of calls made to the public methods so far
    last,             \* the method or callback the event loop ran last
    names,            \* name() of each Node and Port, as a sequence of characters
    returned          \* what the last call returned, if it was a query

vars == <<instance_count, links, ports, node_links, requests, signals, calls, last,
          names, returned>>

----------------------------------------------------------------------------
(* Bounds of the model *)

MaxCalls == 3         \* calls of public methods (the constructor included) in one run

----------------------------------------------------------------------------
(* Values *)

\* Python's None, and a value that is present.
None == <<>>
Some(x) == <<x>>

\* Python truth value of an optional integer, as tested by `if self._link_id:`.
Truthy(o) == o # None /\ o[1] # 0

Nodes == {"R1", "R2", "R3"}
Ports == {"eth0", "eth1"}
\* The node each port belongs to; R3 is a node with no port on any Link.
PortNode == [p \in Ports |-> IF p = "eth0" THEN "R1" ELSE "R2"]

\* Link ids of the controller: 0 is the one Python takes as false.
RemoteIds == {0, 42}
CapturePaths == {"/tmp/a.pcap", "/tmp/b.pcap"}

\* The endpoints a Link is constructed on: (R1, eth0) to (R2, eth1).
Endpoints == {<<"eth0", "eth1">>}

LinkRefs == 1 .. Len(links)

\* The names of the spec's example: nodes R1, R2, R3 and ports eth0, eth1.
DefaultNames ==
    [x \in Nodes \cup Ports |->
        CASE x = "R1" -> <<"R", "1">>
          [] x = "R2" -> <<"R", "2">>
          [] x = "R3" -> <<"R", "3">>
          [] x = "eth0" -> <<"e", "t", "h", "0">>
          [] x = "eth1" -> <<"e", "t", "h", "1">>]

\* Names a user can give: plain, with a space, with hyphen and underscore,
\* with punctuation and a non-ASCII letter.
SampleNames ==
    {<<"R", "1">>, <<"P", "C", " ", "2">>, <<"a", "-", "b", "_">>, <<".", "é", "/", "x">>}

\* The whole program state as one value, so that a method is a function
\* from the state before the call to the state after it.
World == [instance_count |-> instance_count, links |-> links, ports |-> ports,
          node_links |-> node_links, requests |-> requests, signals |-> signals,
          names |-> names]

----------------------------------------------------------------------------
(* Collaborators: Qt signals, Port, Node, Controller *)

\* QtCore.Signal.emit: delivery is synchronous, so observers see the state
\* as it is at the moment of the emit.
emit(w, sender, signal, arg) ==
    [w EXCEPT !.signals = Append(@, [signal |-> signal, sender |-> sender, arg |-> arg,
                                     view |-> [links |-> w.links, ports |-> w.ports,
                                               node_links |-> w.node_links]])]

Port_setLinkId(w, p, id) == [w EXCEPT !.ports[p].link_id = Some(id)]
Port_setDestinationNode(w, p, n) == [w EXCEPT !.ports[p].destination_node = Some(n)]
Port_setDestinationPort(w, p, q) == [w EXCEPT !.ports[p].destination_port = Some(q)]
Port_setFree(w, p) ==
    [w EXCEPT !.ports[p] = [link_id |-> None, destination_node |-> None,
                            destination_port |-> None]]

Node_addLink(w, n, l) == [w EXCEPT !.node_links[n] = @ \cup {l}]
Node_deleteLink(w, n, l) == [w EXCEPT !.node_links[n] = @ \ {l}]

\* Controller.instance().post/delete/get: the request is in flight until its
\* completion runs the callback, exactly once.  link_id is the value that
\* was formatted into the request's URL.
Controller_send(w, op, l, link_id) ==
    [w EXCEPT !.requests = @ (+) SetToBag({[op |-> op, link |-> l, link_id |-> link_id]})]

Controller_complete(w, req) == [w EXCEPT !.requests = @ (-) SetToBag({req})]

\* What a completion hands to the callback when the request failed, and
\* when it succeeded with nothing to return.
ErrorResult == [message |-> "error"]
NoResult == [nothing |-> TRUE]

InFlight(op, l) == {req \in BagToSet(requests) : req.op = op /\ req.link = l}

----------------------------------------------------------------------------
(* Link methods, as functions on the program state *)

\* As _linkCreatedCallback, but the destination port is pointed at its own
\* node and port instead of the source's.
_linkCreatedCallback_selfWired(w, l, result, error) ==
    IF error THEN w
    ELSE LET self == w.links[l]
             w1 == emit(w, l, "add_link_signal", Some(self._id))
             w2 == Port_setLinkId(w1, self._source_port, self._id)
             w3 == Port_setDestinationNode(w2, self._source_port, self._destination_node)
             w4 == Port_setDestinationPort(w3, self._source_port, self._destination_port)
             w5 == Port_setLinkId(w4, self._destination_port, self._id)
             w6 == Port_setDestinationNode(w5, self._destination_port, self._destination_node)
             w7 == Port_setDestinationPort(w6, self._destination_port, self._destination_port)
         IN  [w7 EXCEPT !.links[l]._link_id = Some(result.link_id)]

\* As _linkCreatedCallback, but a failed create is reported to the observers.
_linkCreatedCallback_emitsError(w, l, result, error) ==
    IF error THEN emit(w, l, "error_link_signal", Some(w.links[l]._id))
    ELSE LET self == w.links[l]
             w1 == emit(w, l, "add_link_signal", Some(self._id))
             w2 == Port_setLinkId(w1, self._source_port, self._id)
             w3 == Port_setDestinationNode(w2, self._source_port, self._destination_node)
             w4 == Port_setDestinationPort(w3, self._source_port, self._destination_port)
             w5 == Port_setLinkId(w4, self._destination_port, self._id)
             w6 == Port_setDestinationNode(w5, self._destination_port, self._source_node)
             w7 == Port_setDestinationPort(w6, self._destination_port, self._source_port)
         IN  [w7 EXCEPT !.links[l]._link_id = Some(result.link_id)]

_linkCreatedCallback(w, l, result, error) ==
    IF error THEN w
    ELSE LET self == w.links[l]
             w1 == emit(w, l, "add_link_signal", Some(self._id))
             w2 == Port_setLinkId(w1, self._source_port, self._id)
             w3 == Port_setDestinationNode(w2, self._source_port, self._destination_node)
             w4 == Port_setDestinationPort(w3, self._source_port, self._destination_port)
             w5 == Port_setLinkId(w4, self._destination_port, self._id)
             w6 == Port_setDestinationNode(w5, self._destination_port, self._source_node)
             w7 == Port_setDestinationPort(w6, self._destination_port, self._source_port)
         IN  [w7 EXCEPT !.links[l]._link_id = Some(result.link_id)]

\* As __init__, but the Link registers with its nodes only on the
\* synchronous path, not before the create request is sent.
__init___lateRegister(w, source_node, source_port, destination_node, destination_port, link_id) ==
    LET l == Len(w.links) + 1
        self == [_id |-> w.instance_count,
                 _source_node |-> source_node, _source_port |-> source_port,
                 _destination_node |-> destination_node,
                 _destination_port |-> destination_port,
                 _link_id |-> link_id, _capturing |-> FALSE,
                 _capture_file_path |-> None]
        w1 == [w EXCEPT !.instance_count = @ + 1, !.links = Append(@, self)]
        w2 == Node_addLink(w1, source_node, l)
        w3 == Node_addLink(w2, destination_node, l)
    IN  IF Truthy(link_id)
        THEN _linkCreatedCallback(w3, l, [link_id |-> link_id[1]], FALSE)
        ELSE Controller_send(w1, "create", l, None)

__init__(w, source_node, source_port, destination_node, destination_port, link_id) ==
    LET l == Len(w.links) + 1
        self == [_id |-> w.instance_count,
                 _source_node |-> source_node, _source_port |-> source_port,
                 _destination_node |-> destination_node,
                 _destination_port |-> destination_port,
                 _link_id |-> link_id, _capturing |-> FALSE,
                 _capture_file_path |-> None]
        w1 == [w EXCEPT !.instance_count = @ + 1, !.links = Append(@, self)]
        w2 == Node_addLink(w1, source_node, l)
        w3 == Node_addLink(w2, destination_node, l)
    IN  IF Truthy(link_id)
        THEN _linkCreatedCallback(w3, l, [link_id |-> link_id[1]], FALSE)
        ELSE Controller_send(w3, "create", l, None)

setCapturing(w, l, capturing) ==
    LET w1 == [w EXCEPT !.links[l]._capturing = capturing]
    IN  emit(w1, l, "updated_link_signal", Some(w1.links[l]._id))

\* As reset, but the counter restarts one too low.
reset_fromZero(w) == [w EXCEPT !.instance_count = 0]

reset(w) == [w EXCEPT !.instance_count = 1]

\* As _linkDeletedCallback, but without the test of error.
_linkDeletedCallback_ignoreError(w, l, result, error) ==
    LET self == w.links[l]
        w1 == Port_setFree(w, self._source_port)
        w2 == Node_deleteLink(w1, self._source_node, l)
        w3 == emit(w2, self._source_node, "updated_signal", None)
        w4 == Port_setFree(w3, self._destination_port)
        w5 == Node_deleteLink(w4, self._destination_node, l)
        w6 == emit(w5, self._destination_node, "updated_signal", None)
    IN  emit(w6, l, "delete_link_signal", Some(self._id))

_linkDeletedCallback(w, l, result, error) ==
    IF error THEN w
    ELSE LET self == w.links[l]
             w1 == Port_setFree(w, self._source_port)
             w2 == Node_deleteLink(w1, self._source_node, l)
             w3 == emit(w2, self._source_node, "updated_signal", None)
             w4 == Port_setFree(w3, self._destination_port)
             w5 == Node_deleteLink(w4, self._destination_node, l)
             w6 == emit(w5, self._destination_node, "updated_signal", None)
         IN  emit(w6, l, "delete_link_signal", Some(self._id))

\* As deleteLink, but skip_controller is not looked at.
deleteLink_alwaysRemote(w, l, skip_controller) ==
    Controller_send(w, "delete", l, w.links[l]._link_id)

deleteLink(w, l, skip_controller) ==
    IF skip_controller
    THEN _linkDeletedCallback(w, l, NoResult, FALSE)
    ELSE Controller_send(w, "delete", l, w.links[l]._link_id)

startCapture(w, l) == Controller_send(w, "start_capture", l, w.links[l]._link_id)

\* As _startCaptureCallback, but the path is stored after setCapturing.
_startCaptureCallback_pathLast(w, l, result, error) ==
    IF error THEN w
    ELSE [setCapturing(w, l, TRUE)
             EXCEPT !.links[l]._capture_file_path = Some(result.capture_file_path)]

_startCaptureCallback(w, l, result, error) ==
    IF error THEN w
    ELSE setCapturing([w EXCEPT !.links[l]._capture_file_path = Some(result.capture_file_path)],
                      l, TRUE)

stopCapture(w, l) == Controller_send(w, "stop_capture", l, w.links[l]._link_id)

\* As _stopCaptureCallback, but without the test of error.
_stopCaptureCallback_ignoreError(w, l, result, error) ==
    setCapturing(w, l, FALSE)

_stopCaptureCallback(w, l, result, error) ==
    IF error THEN w
    ELSE setCapturing(w, l, FALSE)

get(w, l) == Controller_send(w, "get", l, w.links[l]._link_id)

\* As getNodePort, but the node is compared with the source node.
getNodePort_testsSource(w, l, node) ==
    IF w.links[l]._source_node = node
    THEN w.links[l]._source_port
    ELSE w.links[l]._destination_port

getNodePort(w, l, node) ==
    IF w.links[l]._destination_node = node
    THEN w.links[l]._destination_port
    ELSE w.links[l]._source_port

\* The character ranges 0-9, A-Z and a-z of the pattern "[^0-9A-Za-z_-]".
Digits == {"0", "1", "2", "3", "4", "5", "6", "7", "8", "9"}
Upper == {"A", "B", "C", "D", "E", "F", "G", "H", "I", "J", "K", "L", "M",
          "N", "O", "P", "Q", "R", "S", "T", "U", "V", "W", "X", "Y", "Z"}
Lower == {"a", "b", "c", "d", "e", "f", "g", "h", "i", "j", "k", "l", "m",
          "n", "o", "p", "q", "r", "s", "t", "u", "v", "w", "x", "y", "z"}

\* re.sub("[^0-9A-Za-z_-]", "", s): every character the class matches is dropped.
re_sub(s) ==
    SelectSeq(s, LAMBDA c : ~(c \notin Digits \cup Upper \cup Lower \cup {"_", "-"}))

\* "{}_{}_to_{}_{}".format(a, b, c, d)
format(a, b, c, d) == a \o <<"_">> \o b \o <<"_", "t", "o", "_">> \o c \o <<"_">> \o d

\* As capture_file_name, but the four names are joined with nothing between.
capture_file_name_joined(w, l) ==
    LET self == w.links[l]
    IN  re_sub(w.names[self._source_node] \o w.names[self._source_port]
                   \o w.names[self._destination_node] \o w.names[self._destination_port])

capture_file_name(w, l) ==
    LET self == w.links[l]
    IN  re_sub(format(w.names[self._source_node], w.names[self._source_port],
                      w.names[self._destination_node], w.names[self._destination_port]))

----------------------------------------------------------------------------
(* The state machine *)

Init ==
    /\ instance_count = 1
    /\ links = <<>>
    /\ ports = [p \in Ports |-> [link_id |-> None, destination_node |-> None,
                                 destination_port |-> None]]
    /\ node_links = [n \in Nodes |-> {}]
    /\ requests = EmptyBag
    /\ signals = <<>>
    /\ calls = 0
    /\ last = [op |-> "start", link |-> 0, error |-> FALSE]
    /\ names = DefaultNames
    /\ returned = None

\* The program goes from its state to w by running op, a method or a callback,
\* on Link l; a call of a public method counts against MaxCalls, a completion
\* dispatched by the event loop does not.
Becomes(w, op, l, error, isCall) ==
    /\ isCall => calls < MaxCalls
    /\ instance_count' = w.instance_count
    /\ links' = w.links
    /\ ports' = w.ports
    /\ node_links' = w.node_links
    /\ requests' = w.requests
    /\ signals' = w.signals
    /\ calls' = IF isCall THEN calls + 1 ELSE calls
    /\ last' = [op |-> op, link |-> l, error |-> error]
    /\ names' = w.names
    /\ returned' = None

\* Link(source_node, source_port, destination_node, destination_port, link_id)
Construct(source_port, destination_port, link_id) ==
    /\ <<source_port, destination_port>> \in Endpoints
    /\ Becomes(__init__(World, PortNode[source_port], source_port,
                        PortNode[destination_port], destination_port, link_id),
               "__init__", Len(links) + 1, FALSE, TRUE)

CreateCompleted(l, r, error) ==
    \E req \in InFlight("create", l) :
        Becomes(_linkCreatedCallback(Controller_complete(World, req), l,
                                     IF error THEN ErrorResult ELSE [link_id |-> r],
                                     error),
                "_linkCreatedCallback", l, error, FALSE)

SetCapturing(l, capturing) ==
    Becomes(setCapturing(World, l, capturing), "setCapturing", l, FALSE, TRUE)

Reset ==
    Becomes(reset(World), "reset", 0, FALSE, TRUE)

DeleteLink(l, skip_controller) ==
    Becomes(deleteLink(World, l, skip_controller),
            IF skip_controller THEN "deleteLink(skip)" ELSE "deleteLink", l, FALSE, TRUE)

DeleteCompleted(l, error) ==
    \E req \in InFlight("delete", l) :
        Becomes(_linkDeletedCallback(Controller_complete(World, req), l,
                                     IF error THEN ErrorResult ELSE NoResult, error),
                "_linkDeletedCallback", l, error, FALSE)

StartCapture(l) == Becomes(startCapture(World, l), "startCapture", l, FALSE, TRUE)

StartCaptureCompleted(l, path, error) ==
    \E req \in InFlight("start_capture", l) :
        Becomes(_startCaptureCallback(Controller_complete(World, req), l,
                                      IF error THEN ErrorResult
                                      ELSE [capture_file_path |-> path], error),
                "_startCaptureCallback", l, error, FALSE)

StopCapture(l) == Becomes(stopCapture(World, l), "stopCapture", l, FALSE, TRUE)

StopCaptureCompleted(l, error) ==
    \E req \in InFlight("stop_capture", l) :
        Becomes(_stopCaptureCallback(Controller_complete(World, req), l,
                                     IF error THEN ErrorResult ELSE NoResult, error),
                "_stopCaptureCallback", l, error, FALSE)

Get(l) == Becomes(get(World, l), "get", l, FALSE, TRUE)

\* The completion of a generic read runs the caller's callback, not the Link's.
GetCompleted(l) ==
    \E req \in InFlight("get", l) :
        Becomes(Controller_complete(World, req), "get callback", l, FALSE, FALSE)

Next ==
    \/ \E sp \in Ports, dp \in Ports, id \in {None} \cup {Some(r) : r \in RemoteIds} :
           Construct(sp, dp, id)
    \/ \E l \in LinkRefs, r \in RemoteIds, error \in BOOLEAN : CreateCompleted(l, r, error)
    \/ \E l \in LinkRefs, capturing \in BOOLEAN : SetCapturing(l, capturing)
    \/ Reset
    \/ \E l \in LinkRefs, skip_controller \in BOOLEAN : DeleteLink(l, skip_controller)
    \/ \E l \in LinkRefs, error \in BOOLEAN : DeleteCompleted(l, error)
    \/ \E l \in LinkRefs : StartCapture(l)
    \/ \E l \in LinkRefs, path \in CapturePaths, error \in BOOLEAN :
           StartCaptureCompleted(l, path, error)
    \/ \E l \in LinkRefs : StopCapture(l)
    \/ \E l \in LinkRefs, error \in BOOLEAN : StopCaptureCompleted(l, error)
    \/ \E l \in LinkRefs : Get(l)
    \/ \E l \in LinkRefs : GetCompleted(l)

Spec == Init /\ [][Next]_vars

----------------------------------------------------------------------------
(* The queries of a Link: methods that return a value and change nothing,  *)
(* called on Links whose nodes and ports carry any of the sample names.    *)

InitQuery ==
    /\ instance_count = 1
    /\ links = <<>>
    /\ ports = [p \in Ports |-> [link_id |-> None, destination_node |-> None,
                                 destination_port |-> None]]
    /\ node_links = [n \in Nodes |-> {}]
    /\ requests = EmptyBag
    /\ signals = <<>>
    /\ calls = 0
    /\ last = [op |-> "start", link |-> 0, error |-> FALSE]
    /\ names \in {f \in [Nodes \cup Ports -> SampleNames \cup {DefaultNames["R3"]}] :
                     /\ f["R3"] = DefaultNames["R3"]
                     /\ \A x \in (Nodes \cup Ports) \ {"R3"} : f[x] \in SampleNames}
    /\ returned = None

\* Link l returns value from the call op(args); the state stays as it is.
Returns(op, l, args, value) ==
    /\ calls < MaxCalls
    /\ UNCHANGED <<instance_count, links, ports, node_links, requests, signals, names>>
    /\ calls' = calls + 1
    /\ last' = [op |-> op, link |-> l, error |-> FALSE]
    /\ returned' = Some([args |-> args, value |-> value])

GetNodePort(l, node) == Returns("getNodePort", l, <<node>>, getNodePort(World, l, node))

CaptureFileName(l) == Returns("capture_file_name", l, <<>>, capture_file_name(World, l))

NextQuery ==
    \/ \E sp \in Ports, dp \in Ports, id \in {None} \cup {Some(r) : r \in RemoteIds} :
           Construct(sp, dp, id)
    \/ \E l \in LinkRefs, node \in Nodes : GetNodePort(l, node)
    \/ \E l \in LinkRefs : CaptureFileName(l)

SpecQuery == InitQuery /\ [][NextQuery]_vars

----------------------------------------------------------------------------
(* Vocabulary of the properties *)

FreePort == [link_id |-> None, destination_node |-> None, destination_port |-> None]

\* Both ports of Link l carry its local id and point at the other endpoint.
Wired(l) ==
    LET self == links[l]
    IN  /\ ports[self._source_port] =
               [link_id |-> Some(self._id),
                destination_node |-> Some(self._destination_node),
                destination_port |-> Some(self._destination_port)]
        /\ ports[self._destination_port] =
               [link_id |-> Some(self._id),
                destination_node |-> Some(self._source_node),
                destination_port |-> Some(self._source_port)]

PortsFree(l) ==
    /\ ports[links[l]._source_port] = FreePort
    /\ ports[links[l]._destination_port] = FreePort

Registered(l) ==
    /\ l \in node_links[links[l]._source_node]
    /\ l \in node_links[links[l]._destination_node]

Unregistered(l) ==
    /\ l \notin node_links[links[l]._source_node]
    /\ l \notin node_links[links[l]._destination_node]

\* The positions in the record of signals of the signals `signal` of `sender`.
Emitted(sender, signal) ==
    {i \in DOMAIN signals : signals[i].signal = signal /\ signals[i].sender = sender}

\* The signals this step emitted.
NewSignals == SubSeq(signals', Len(signals) + 1, Len(signals'))

OnlyAppended == Len(signals') >= Len(signals) /\ SubSeq(signals', 1, Len(signals)) = signals

Deleted(l) == Emitted(l, "delete_link_signal") # {}

----------------------------------------------------------------------------
(* C1: when the create request of a Link constructed without a remote id   *)
(* completes successfully with remote id r, the Link's remote id is r,     *)
(* both ports carry the Link's local id and point at the other endpoint,   *)
(* and exactly one created signal (add_link_signal) of the Link has been   *)
(* emitted, carrying its local id.                                         *)
C1_CreateSuccess ==
    [][\A l \in LinkRefs, r \in RemoteIds :
          (links[l]._link_id = None /\ CreateCompleted(l, r, FALSE)) =>
              /\ links'[l]._link_id = Some(r)
              /\ Wired(l)'
              /\ Cardinality(Emitted(l, "add_link_signal")') = 1
              /\ \A i \in Emitted(l, "add_link_signal")' :
                     signals'[i].arg = Some(links[l]._id)]_vars

C1_Witness ==
    \E l \in LinkRefs :
        /\ last = [op |-> "_linkCreatedCallback", link |-> l, error |-> FALSE]
        /\ links[l]._link_id = Some(42)
        /\ Wired(l)
        /\ Cardinality(Emitted(l, "add_link_signal")) = 1

(* C2: a Link constructed with a remote id supplied, whatever its value,   *)
(* is finalized inside the constructor with that id (remote id set, ports  *)
(* wired, created emitted) and no create request is sent for it.           *)
C2_ExistingIdIsSynchronous ==
    [][\A sp \in Ports, dp \in Ports, r \in RemoteIds, l \in 1 .. MaxCalls :
          (l = Len(links) + 1 /\ Construct(sp, dp, Some(r))) =>
              /\ links'[l]._link_id = Some(r)
              /\ Wired(l)'
              /\ Cardinality(Emitted(l, "add_link_signal")') = 1
              /\ InFlight("create", l)' = {}]_vars

(* C3: the constructor registers the Link with both nodes, before any      *)
(* completion of its create request can run; and a create completion that  *)
(* reports an error emits no signal, leaves an unset remote id unset,      *)
(* wires no port and leaves the registrations with the nodes as they are.  *)
C3_RegisteredBeforeAndAfterFailure ==
    [][/\ \A sp \in Ports, dp \in Ports, id \in {None} \cup {Some(r) : r \in RemoteIds},
             l \in 1 .. MaxCalls :
              (l = Len(links) + 1 /\ Construct(sp, dp, id)) =>
                  /\ Registered(l)'
                  /\ Emitted(l, "add_link_signal")' = {} => InFlight("create", l)' # {}
       /\ \A l \in LinkRefs, r \in RemoteIds :
              CreateCompleted(l, r, TRUE) =>
                  /\ signals' = signals
                  /\ links[l]._link_id = None => links'[l]._link_id = None
                  /\ ports' = ports
                  /\ node_links' = node_links
                  /\ Registered(l) => Registered(l)']_vars

C3_Witness ==
    \E l \in LinkRefs :
        /\ last = [op |-> "_linkCreatedCallback", link |-> l, error |-> TRUE]
        /\ links[l]._link_id = None
        /\ Registered(l)
        /\ PortsFree(l)
        /\ Emitted(l, "add_link_signal") = {}

(* C4: deleteLink with skip_controller=True finalizes the deletion inside  *)
(* the call and sends no request: on return both ports are free, the Link  *)
(* is removed from both nodes, and the call has emitted one updated signal *)
(* on each of the two nodes and one deleted signal carrying the local id.  *)
C4_DeleteSkipRemote ==
    [][\A l \in LinkRefs :
          DeleteLink(l, TRUE) =>
              /\ requests' = requests
              /\ PortsFree(l)'
              /\ Unregistered(l)'
              /\ OnlyAppended
              /\ Len(NewSignals) = 3
              /\ \A n \in {links[l]._source_node, links[l]._destination_node} :
                     Cardinality({i \in 1 .. 3 : /\ NewSignals[i].signal = "updated_signal"
                                                 /\ NewSignals[i].sender = n}) = 1
              /\ Cardinality({i \in 1 .. 3 :
                                 /\ NewSignals[i].signal = "delete_link_signal"
                                 /\ NewSignals[i].sender = l
                                 /\ NewSignals[i].arg = Some(links[l]._id)}) = 1]_vars

C4_Witness ==
    \E l \in LinkRefs :
        /\ last = [op |-> "deleteLink(skip)", link |-> l, error |-> FALSE]
        /\ links[l]._link_id # None
        /\ PortsFree(l)
        /\ Unregistered(l)
        /\ Cardinality(Emitted(l, "delete_link_signal")) = 1
        /\ requests = EmptyBag

(* C5: a delete request that completes with an error changes nothing: the  *)
(* Link stays registered with both nodes, the ports keep their link id and *)
(* destinations, and no signal is emitted.                                 *)
C5_DeleteFailure ==
    [][\A l \in LinkRefs :
          DeleteCompleted(l, TRUE) =>
              /\ links' = links
              /\ ports' = ports
              /\ node_links' = node_links
              /\ signals' = signals]_vars

C5_Witness ==
    \E l \in LinkRefs :
        /\ last = [op |-> "_linkDeletedCallback", link |-> l, error |-> TRUE]
        /\ Registered(l)
        /\ Wired(l)
        /\ Emitted(l, "delete_link_signal") = {}

(* C6: once the deletion of a Link has been finalized, no completion of a  *)
(* request of that Link changes that: its ports stay cleared, no node      *)
(* references it, its remote id is not set and no created signal is        *)
(* emitted for it.                                                         *)
C6_DeletedIsTerminal ==
    [][\A l \in LinkRefs :
          (/\ Deleted(l) /\ PortsFree(l) /\ Unregistered(l)
           /\ \/ \E r \in RemoteIds, error \in BOOLEAN : CreateCompleted(l, r, error)
              \/ \E error \in BOOLEAN : DeleteCompleted(l, error)
              \/ \E path \in CapturePaths, error \in BOOLEAN :
                     StartCaptureCompleted(l, path, error)
              \/ \E error \in BOOLEAN : StopCaptureCompleted(l, error)
              \/ GetCompleted(l)) =>
              /\ PortsFree(l)'
              /\ Unregistered(l)'
              /\ links'[l]._link_id = links[l]._link_id
              /\ Emitted(l, "add_link_signal")' = Emitted(l, "add_link_signal")]_vars

(* C7: in every reachable state, a Link that is capturing has a capture    *)
(* file path.                                                              *)
C7_CapturingHasPath ==
    \A l \in LinkRefs : links[l]._capturing = TRUE => links[l]._capture_file_path # None

(* C8: after a stop_capture request completes successfully the Link is not *)
(* capturing, its capture file path is cleared and an updated signal was   *)
(* emitted, so that no capture file path outlives the capture.             *)
C8_StopClearsPath ==
    [][\A l \in LinkRefs :
          StopCaptureCompleted(l, FALSE) =>
              /\ links'[l]._capturing = FALSE
              /\ links'[l]._capture_file_path = None
              /\ Len(NewSignals) = 1
              /\ NewSignals[1].signal = "updated_link_signal"
              /\ NewSignals[1].sender = l]_vars

(* C9: when a start_capture request completes successfully with capture    *)
(* file path p, the path becomes p, capturing becomes true and one updated *)
(* signal carrying the local id is emitted, whose observers already see    *)
(* the path p.                                                             *)
C9_StartCaptureSuccess ==
    [][\A l \in LinkRefs, p \in CapturePaths :
          StartCaptureCompleted(l, p, FALSE) =>
              /\ links'[l]._capture_file_path = Some(p)
              /\ links'[l]._capturing = TRUE
              /\ OnlyAppended
              /\ Len(NewSignals) = 1
              /\ NewSignals[1].signal = "updated_link_signal"
              /\ NewSignals[1].sender = l
              /\ NewSignals[1].arg = Some(links[l]._id)
              /\ NewSignals[1].view.links[l]._capture_file_path = Some(p)]_vars

C9_Witness ==
    \E l \in LinkRefs :
        /\ last = [op |-> "_startCaptureCallback", link |-> l, error |-> FALSE]
        /\ links[l]._capturing = TRUE
        /\ links[l]._capture_file_path = Some("/tmp/b.pcap")
        /\ signals[Len(signals)].signal = "updated_link_signal"
        /\ signals[Len(signals)].view.links[l]._capture_file_path = Some("/tmp/b.pcap")

(* C10: a start_capture or stop_capture completion that reports an error   *)
(* leaves capturing and the capture file path as they were and emits no    *)
(* signal; a failing stop_capture on a capturing Link leaves it capturing. *)
C10_CaptureFailure ==
    [][\A l \in LinkRefs :
          ((\E p \in CapturePaths : StartCaptureCompleted(l, p, TRUE))
               \/ StopCaptureCompleted(l, TRUE)) =>
              /\ links'[l]._capturing = links[l]._capturing
              /\ links'[l]._capture_file_path = links[l]._capture_file_path
              /\ signals' = signals]_vars

C10_Witness ==
    \E l \in LinkRefs :
        /\ last = [op |-> "_stopCaptureCallback", link |-> l, error |-> TRUE]
        /\ links[l]._capturing = TRUE
        /\ links[l]._capture_file_path # None

(* C11: the remote id of a Link is unset for as long as its create request *)
(* is in flight, and once it is set no operation and no completion changes *)
(* it.                                                                     *)
C11_RemoteIdSetOnce ==
    /\ [](\A l \in LinkRefs : InFlight("create", l) # {} => links[l]._link_id = None)
    /\ [][\A l \in LinkRefs :
             links[l]._link_id # None => links'[l]._link_id = links[l]._link_id]_vars

\* The Links constructed since the last reset, or since the start, are the
\* last instance_count - 1 Links and carry the ids 1, 2, ... in that order.
IdsSinceReset ==
    /\ instance_count >= 1
    /\ instance_count - 1 <= Len(links)
    /\ \A j \in 1 .. instance_count - 1 :
           links[Len(links) - (instance_count - 1) + j]._id = j

(* C12: the local ids handed to successive Links are 1, 2, 3, ... since    *)
(* the start or since the last reset(), so Links constructed with no reset *)
(* between them have distinct ids; the id of a Link never changes; and     *)
(* reset() makes the next constructed Link get id 1, however many ids were *)
(* handed out before.                                                      *)
C12_LocalIds ==
    [][/\ IdsSinceReset'
       /\ \A l \in LinkRefs : links'[l]._id = links[l]._id
       /\ Reset => instance_count' = 1
       /\ Len(links') = Len(links) + 1 =>
              /\ links'[Len(links')]._id = instance_count
              /\ instance_count' = instance_count + 1
       /\ (Len(links') = Len(links) /\ ~Reset) => instance_count' = instance_count]_vars

C12_Witness ==
    /\ last = [op |-> "__init__", link |-> 2, error |-> FALSE]
    /\ Len(links) = 2
    /\ links[1]._id = 1
    /\ links[2]._id = 1
    /\ instance_count = 2

(* C13: getNodePort(node) returns the destination port when node is the    *)
(* destination node of the Link, and the source port for every other node, *)
(* a node that is no endpoint of the Link included.                        *)
C13_GetNodePort ==
    [][\A l \in LinkRefs, node \in Nodes :
          GetNodePort(l, node) =>
              /\ node = links[l]._destination_node =>
                     returned'[1].value = links[l]._destination_port
              /\ node = links[l]._source_node /\ node # links[l]._destination_node =>
                     returned'[1].value = links[l]._source_port
              /\ node \notin {links[l]._source_node, links[l]._destination_node} =>
                     returned'[1].value = links[l]._source_port]_vars

C13_Witness ==
    \E l \in LinkRefs :
        /\ last = [op |-> "getNodePort", link |-> l, error |-> FALSE]
        /\ links[l]._source_node = "R1"
        /\ links[l]._destination_node = "R2"
        /\ returned = Some([args |-> <<"R3">>, value |-> "eth0"])

\* The characters the claim allows in a capture file name.
AllowedChars == Digits \cup Upper \cup Lower \cup {"_", "-"}

\* s without its characters outside AllowedChars.
Retained(s) == SelectSeq(s, LAMBDA c : c \in AllowedChars)

\* The names of the two nodes and two ports of Link l, in the order of the claim.
FourNames(l) ==
    <<names[links[l]._source_node], names[links[l]._source_port],
      names[links[l]._destination_node], names[links[l]._destination_port]>>

(* C14 as stated: capture_file_name() is the concatenation of source node  *)
(* name, source port name, destination node name and destination port     *)
(* name with every character outside digits, letters, underscore and       *)
(* hyphen removed, and nothing substituted or added.                       *)
C14_NothingAdded ==
    [][\A l \in LinkRefs :
          CaptureFileName(l) =>
              returned'[1].value =
                  Retained(FourNames(l)[1] \o FourNames(l)[2]
                               \o FourNames(l)[3] \o FourNames(l)[4])]_vars

(* C14 as amended: capture_file_name() is the four names, each with its    *)
(* characters outside digits, letters, underscore and hyphen removed,      *)
(* joined by the separators "_", "_to_" and "_"; it holds only allowed     *)
(* characters, and apart from the separators nothing is added.             *)
C14_SeparatorsAdded ==
    [][\A l \in LinkRefs :
          CaptureFileName(l) =>
              /\ returned'[1].value =
                     Retained(FourNames(l)[1]) \o <<"_">> \o Retained(FourNames(l)[2])
                         \o <<"_", "t", "o", "_">>
                         \o Retained(FourNames(l)[3]) \o <<"_">> \o Retained(FourNames(l)[4])
              /\ \A i \in DOMAIN returned'[1].value :
                     returned'[1].value[i] \in AllowedChars]_vars

C14_Witness ==
    \E l \in LinkRefs :
        /\ last = [op |-> "capture_file_name", link |-> l, error |-> FALSE]
        /\ FourNames(l) = <<<<"P", "C", " ", "2">>, <<".", "é", "/", "x">>,
                            <<"a", "-", "b", "_">>, <<"R", "1">>>>
        /\ returned = Some([args |-> <<>>,
                            value |-> <<"P", "C", "2", "_", "x", "_", "t", "o", "_",
                                        "a", "-", "b", "_", "_", "R", "1">>])

(* C15: the created signal is the last thing the finalization of a create  *)
(* does: the observers of every add_link_signal see the Link with its      *)
(* remote id set and both ports carrying its local id and pointing at the  *)
(* other endpoint.                                                         *)
C15_CreatedEmittedLast ==
    \A i \in DOMAIN signals :
        signals[i].signal = "add_link_signal" =>
            LET self == signals[i].view.links[signals[i].sender]
            IN  /\ self._link_id # None
                /\ signals[i].view.ports[self._source_port] =
                       [link_id |-> Some(self._id),
                        destination_node |-> Some(self._destination_node),
                        destination_port |-> Some(self._destination_port)]
                /\ signals[i].view.ports[self._destination_port] =
                       [link_id |-> Some(self._id),
                        destination_node |-> Some(self._source_node),
                        destination_port |-> Some(self._source_port)]

\* What the observers of signals[i] see of Link l: both ports free and the
\* Link registered with neither of its nodes.
SeenTornDown(i, l) ==
    LET view == signals[i].view
        self == view.links[l]
    IN  /\ view.ports[self._source_port] = FreePort
        /\ view.ports[self._destination_port] = FreePort
        /\ l \notin view.node_links[self._source_node]
        /\ l \notin view.node_links[self._destination_node]

(* C16: a deletion finalization frees both ports and removes the Link from *)
(* both nodes before it emits the updated signal of either node, and emits *)
(* the deleted signal after both: the observers of either node's updated   *)
(* signal see both ports free and the Link absent from both nodes.         *)
C16_DeletionOrdered ==
    \A i \in DOMAIN signals :
        signals[i].signal = "delete_link_signal" =>
            LET l == signals[i].sender
            IN  /\ i >= 3
                /\ signals[i - 2].signal = "updated_signal"
                /\ signals[i - 2].sender = links[l]._source_node
                /\ signals[i - 1].signal = "updated_signal"
                /\ signals[i - 1].sender = links[l]._destination_node
                /\ SeenTornDown(i - 2, l)
                /\ SeenTornDown(i - 1, l)

(* C17: no errored signal (error_link_signal) is ever emitted, whichever   *)
(* completions report an error.                                            *)
C17_NoErroredSignal ==
    \A i \in DOMAIN signals : signals[i].signal # "error_link_signal"

C17_Witness ==
    /\ last.error = TRUE
    /\ last.op = "_linkCreatedCallback"
    /\ \A i \in DOMAIN signals : signals[i].signal # "error_link_signal"

(* C18: every delete, start_capture, stop_capture and get request in       *)
(* flight is addressed with a remote id that is not None.                  *)
C18_RequestsCarryRemoteId ==
    \A req \in BagToSet(requests) :
        req.op \in {"delete", "start_capture", "stop_capture", "get"} => req.link_id # None

(* C19: the deletion of a Link is finalized at most once: its deleted      *)
(* signal is emitted at most once, whatever deleteLink calls and           *)
(* completions occur.                                                      *)
C19_DeletedAtMostOnce ==
    \A l \in LinkRefs : Cardinality(Emitted(l, "delete_link_signal")) <= 1

(* C20: once the deletion of a Link has been finalized, the completion of  *)
(* a start_capture or stop_capture request of that Link changes neither    *)
(* capturing nor the capture file path and emits no signal.                *)
C20_NoCaptureAfterDelete ==
    [][\A l \in LinkRefs :
          (Deleted(l) /\ ((\E p \in CapturePaths, error \in BOOLEAN :
                               StartCaptureCompleted(l, p, error))
                             \/ \E error \in BOOLEAN : StopCaptureCompleted(l, error))) =>
              /\ links'[l]._capturing = links[l]._capturing
              /\ links'[l]._capture_file_path = links[l]._capture_file_path
              /\ signals' = signals]_vars

====
